---- MODULE Spec2Model ----
(***************************************************************************)
(* Model of dj_db_manager.py: the file <-> table import/export utility.    *)
(*                                                                         *)
(* State: the files on disk, the rows and the id sequence of each table,   *)
(* the state of django's connection, main()'s position, and a record of    *)
(* what the last menu command did (its result, the accesses it made, the   *)
(* state it started from).                                                 *)
(*                                                                         *)
(* A cell value is a type, a text and the parts that follow the text: the  *)
(* str "1", the int 1, the bool True, the date 2020-01-01, the datetime    *)
(* 2020-01-01 with the time 10:30:00, the Decimal 2 with the fraction      *)
(* digits 5 0; None / SQL NULL is the value NULL.  A path is a stem and an *)
(* extension.                                                              *)
(***************************************************************************)
EXTENDS Integers, Sequences, FiniteSets, TLC

VARIABLES fs, rows, seq, conn, mainpc, last, imported

vars == <<fs, rows, seq, conn, mainpc, last, imported>>

----------------------------------------------------------------------------
(* Bounds of the model *)

MaxRows == 3          \* records in an input file

----------------------------------------------------------------------------
(* Values *)

NULL == [t |-> "none", v |-> "", w |-> <<>>]

\* a str, as csv and json.load give it
S(x) == [t |-> "str", v |-> x, w |-> <<>>]

\* an int, as json.load and the database give it
I(x) == [t |-> "int", v |-> x, w |-> <<>>]

\* a bool: B("True"), B("False")
B(x) == [t |-> "bool", v |-> x, w |-> <<>>]

\* a datetime.date, by its isoformat
D(x) == [t |-> "date", v |-> x, w |-> <<>>]

\* a datetime.datetime, by the isoformat of its date and of its time
DT(d, tm) == [t |-> "datetime", v |-> d, w |-> <<tm>>]

\* a Decimal, by its integer part and the digits of its fraction
Dec(n, frac) == [t |-> "decimal", v |-> n, w |-> frac]

\* a float, by its integer part and the digits of its fraction (at least one)
Float(n, frac) == [t |-> "float", v |-> n, w |-> frac]

Range(s) == {s[i] : i \in DOMAIN s}

\* the element of a one-element set
Only(T) == CHOOSE x \in T : TRUE

RECURSIVE RemoveFirst(_, _)
\* list.remove(x): drops the first occurrence of x
RemoveFirst(s, x) ==
    IF s = <<>> THEN <<>>
    ELSE IF Head(s) = x THEN Tail(s)
    ELSE <<Head(s)>> \o RemoveFirst(Tail(s), x)

RECURSIVE Join(_)
\* ''.join(parts)
Join(parts) == IF parts = <<>> THEN "" ELSE Head(parts) \o Join(Tail(parts))

RECURSIVE StripZeros(_)
\* the digits of a fraction without its trailing zeros
StripZeros(frac) ==
    IF frac = <<>> THEN <<>>
    ELSE IF frac[Len(frac)] = "0" THEN StripZeros(SubSeq(frac, 1, Len(frac) - 1))
    ELSE frac

\* value.isoformat() of a date, time or datetime
isoformat(val) == IF val.t = "datetime" THEN val.v \o "T" \o val.w[1] ELSE val.v

\* float(value) of a Decimal (of few enough digits for the float to show them)
float(val) ==
    Float(val.v, IF StripZeros(val.w) = <<>> THEN <<"0">> ELSE StripZeros(val.w))

\* str(value)
str(val) ==
    IF val.t = "datetime" THEN val.v \o " " \o val.w[1]
    ELSE IF val.t = "decimal"
    THEN (IF val.w = <<>> THEN val.v ELSE val.v \o "." \o Join(val.w))
    ELSE IF val.t = "float" THEN val.v \o "." \o Join(val.w)
    ELSE IF val.t = "none" THEN "None"
    ELSE val.v

----------------------------------------------------------------------------
(* The database reads the texts of the model as follows.                   *)

Digits == <<"1", "2", "3", "4", "5", "6", "7", "8", "9">>

\* the n-th value of an id sequence
SeqValue(n) == I(Digits[n])

\* the texts the database accepts for an integer column, and what it stores
IsInt(x) == x = "02" \/ \E n \in DOMAIN Digits : Digits[n] = x

IntCast(x) == IF x = "02" THEN "2" ELSE x

\* a numeric with a fraction, rounded to an integer: half goes away from zero
Round(val) ==
    IF val.w # <<>> /\ val.w[1] \in {"5", "6", "7", "8", "9"}
    THEN IF val.v = "0" THEN "1"
         ELSE IF val.v = "9" THEN "10"
         ELSE Digits[(CHOOSE n \in DOMAIN Digits : Digits[n] = val.v) + 1]
    ELSE val.v

\* the texts the database accepts for a boolean column, and what it stores
IsBool(x) == x \in {"t", "true", "True", "1", "f", "false", "False", "0"}

BoolCast(x) == IF x \in {"t", "true", "True", "1"} THEN "True" ELSE "False"

\* the dates and the times of day of the model
Dates == {"2020-01-01", "2019-05-05"}

Times == {"10:30:00", "08:00:00", "00:00:00"}

\* the texts the database accepts for a date, and what it stores
IsDate(x) == x \in Dates \cup {"20200101"}

DateCast(x) == IF x = "20200101" THEN "2020-01-01" ELSE x

\* the datetimes a text denotes: a date and a time, with a T or a space
Moments(x) ==
    {m \in {DT(d, tm) : d \in Dates, tm \in Times} : x \in {isoformat(m), str(m)}}

\* the texts the database accepts for a timestamp, and what it stores
IsTimestamp(x) == IsDate(x) \/ Moments(x) # {}

TimestampCast(x) == IF IsDate(x) THEN DT(DateCast(x), "00:00:00") ELSE Only(Moments(x))

\* the Decimals a text denotes
Amounts(x) ==
    {m \in {Dec("2", <<"5", "0">>), Dec("2", <<"5">>), Dec("3", <<"0">>)} : x = str(m)}
        \cup (IF IsInt(x) THEN {Dec(IntCast(x), <<>>)} ELSE {})

\* the texts the database accepts for a numeric column, and what it stores
IsNumeric(x) == Amounts(x) # {}

NumericCast(x) == Only(Amounts(x))

----------------------------------------------------------------------------
(* The tables: realtors and listings, with the columns their admins list.  *)
(* Each has a serial primary key id; no other column is taken to be NOT    *)
(* NULL.  A column name has one type in both tables.  The database holds   *)
(* the tables in the domain of rows.                                       *)

RealtorColumns == <<"id", "name", "is_mvp", "email", "hire_date">>

ListingColumns == <<"id", "title", "is_published", "price", "list_date", "realtor">>

Catalog == [realtors |-> RealtorColumns, listings |-> ListingColumns]

ColType == [id |-> "int", name |-> "text", is_mvp |-> "bool", email |-> "text",
            hire_date |-> "date",
            title |-> "text", is_published |-> "bool", price |-> "numeric",
            list_date |-> "timestamp", realtor |-> "int"]

Accepted(val) == [err |-> "none", val |-> val]

Rejected(e) == [err |-> e, val |-> NULL]

\* a str parameter of an INSERT: sent as a quoted literal, parsed by the
\* column's type
CoerceStr(ty, val) ==
    IF ty = "text" THEN Accepted(val)
    ELSE IF ty = "int"
    THEN IF IsInt(val.v) THEN Accepted(I(IntCast(val.v))) ELSE Rejected("DataError")
    ELSE IF ty = "bool"
    THEN IF IsBool(val.v) THEN Accepted(B(BoolCast(val.v))) ELSE Rejected("DataError")
    ELSE IF ty = "date"
    THEN IF IsDate(val.v) THEN Accepted(D(DateCast(val.v)))
         ELSE IF IsTimestamp(val.v) THEN Accepted(D(TimestampCast(val.v).v))
         ELSE Rejected("DataError")
    ELSE IF ty = "timestamp"
    THEN IF IsTimestamp(val.v) THEN Accepted(TimestampCast(val.v)) ELSE Rejected("DataError")
    ELSE IF IsNumeric(val.v) THEN Accepted(NumericCast(val.v)) ELSE Rejected("DataError")

\* an int, float or bool parameter of an INSERT: sent bare, and must be
\* assignable to the column's type
CoerceBare(ty, val) ==
    IF val.t = "int"
    THEN IF ty = "int" THEN Accepted(val)
         ELSE IF ty = "text" THEN Accepted(S(val.v))
         ELSE IF ty = "numeric" THEN Accepted(Dec(val.v, <<>>))
         ELSE Rejected("ProgrammingError")        \* datatype mismatch
    ELSE IF val.t = "float"
    THEN IF ty = "numeric" THEN Accepted(Dec(val.v, val.w))
         ELSE IF ty = "text" THEN Accepted(S(str(val)))
         ELSE IF ty = "int" THEN Accepted(I(Round(val)))
         ELSE Rejected("ProgrammingError")        \* datatype mismatch
    ELSE IF ty = "bool" THEN Accepted(val)        \* a bool
         ELSE IF ty = "text" THEN Accepted(S(IF val.v = "True" THEN "true" ELSE "false"))
         ELSE Rejected("ProgrammingError")        \* datatype mismatch

\* a parameter of an INSERT as the column takes it
Coerce(col, val) ==
    IF val = NULL THEN Accepted(NULL)
    ELSE IF val.t = "str" THEN CoerceStr(ColType[col], val)
    ELSE CoerceBare(ColType[col], val)

\* the value a column stores for an input value it accepts
Stored(col, val) == Coerce(col, val).val

\* the table names the user enters: in each database one of them is missing
TableNames == {"realtors", "listings"}

----------------------------------------------------------------------------
(* Files *)

Exts == {".CSV", ".json", ".txt"}

Paths == [stem : {"r"}, ext : Exts]

\* str.lower() on the strings the model uses
lower(e) ==
    IF e = ".CSV" THEN ".csv"
    ELSE IF e = "Y" THEN "y"
    ELSE IF e = "N" THEN "n"
    ELSE e

Absent == [fmt |-> "absent", header |-> <<>>, body |-> <<>>]

Garbage == [fmt |-> "garbage", header |-> <<>>, body |-> <<>>]

Empty == [fmt |-> "empty", header |-> <<>>, body |-> <<>>]

\* a file holding the JSON object {}
JsonObject == [fmt |-> "object", header |-> <<>>, body |-> <<>>]

\* a JSON object / a DictReader row: its keys in order and their values
Rec(ks, vs) == [keys |-> ks, vals |-> vs]

Has(rec, k) == k \in Range(rec.keys)

Get(rec, k) == rec.vals[CHOOSE i \in DOMAIN rec.keys : rec.keys[i] = k]

JsonList(recs) == [fmt |-> "json", header |-> <<>>, body |-> recs]

CsvFile(h, lines) == [fmt |-> "csv", header |-> h, body |-> lines]

----------------------------------------------------------------------------
(* Exceptions and injected faults *)

NoFault == [site |-> "none", step |-> "none", exc |-> "none", k |-> 0]

NoResult == [msg |-> "", expected |-> <<>>, found |-> <<>>]

Msg(m) == [msg |-> m, expected |-> <<>>, found |-> <<>>]

\* the running call (carried from one statement to the next as the set
\* holding its state): the database and connection it works on, the accesses
\* it has made, the exception in flight, the value returned, its locals
Call(files, r, s, c) ==
    [fs |-> files, rows |-> r, seq |-> s, conn |-> c, log |-> <<>>, exc |-> "none",
     ret |-> NoResult, done |-> FALSE, flag |-> FALSE, hit |-> FALSE,
     headers |-> <<>>, file_type |-> "", cols |-> <<>>, sel |-> <<>>]

Raise(c, e) == [c EXCEPT !.exc = e, !.done = TRUE]

Return(c, r) == [c EXCEPT !.ret = r, !.done = TRUE]

Log(c, ev) == [c EXCEPT !.log = Append(@, ev)]

Hits(f, site, step) == f.site = site /\ f.step = step

\* the injected fault occurs: the step raises f.exc
RaiseFault(c, f) == [Raise(c, f.exc) EXCEPT !.hit = TRUE]

----------------------------------------------------------------------------
(* validate_file_type *)

\* variant: the extension test is missing
validate_file_type_any(path) == TRUE

validate_file_type(path) == lower(path.ext) \in {".csv", ".json"}

(* check_file_exists *)

check_file_exists(files, path) == files[path].fmt # "absent"

(* db_cursor: the context manager.  c is the call at the with statement,   *)
(* body the call as the with block leaves it, started from cursor(c).      *)

\* connection.cursor() succeeded: the connection is open
cursor(c) == [c EXCEPT !.conn = TRUE]

db_cursor(c, site, f, body) ==
    IF Hits(f, site, "acquire")
    THEN RaiseFault(c, f)                      \* connection.cursor() is outside the try
    ELSE IF Hits(f, site, "cursor.close")
    THEN RaiseFault(body, f)                   \* connection.close() is not reached
    ELSE IF Hits(f, site, "connection.close")
    THEN RaiseFault([body EXCEPT !.conn = FALSE], f)
    ELSE [body EXCEPT !.conn = FALSE]

\* cursor.execute(ev): the statement is sent, and raises if the fault hits it
Execute(c, site, step, f, ev) ==
    IF c.done THEN c
    ELSE IF Hits(f, site, step) THEN RaiseFault(Log(c, ev), f)
    ELSE Log(c, ev)

(* check_table_exists: leaves its answer in flag *)

\* variant: the catalog query answers true for every name
check_table_exists_always(c, table, f) ==
    LET x == Execute(cursor(c), "check_table_exists", "execute", f, "SELECT tables")
    IN  db_cursor(c, "check_table_exists", f,
            IF x.done THEN x ELSE [x EXCEPT !.flag = TRUE])

check_table_exists(c, table, f) ==
    LET x == Execute(cursor(c), "check_table_exists", "execute", f, "SELECT tables")
    IN  db_cursor(c, "check_table_exists", f,
            IF x.done THEN x ELSE [x EXCEPT !.flag = table \in DOMAIN x.rows])

(* get_table_columns: leaves the list in cols *)

\* variant: include_id is ignored, the id column always stays
get_table_columns_keep_id(c, table, include_id, f) ==
    LET x == Execute(cursor(c), "get_table_columns", "execute", f, "SELECT columns")
        columns == IF table \in DOMAIN x.rows THEN Catalog[table] ELSE <<>>
    IN  db_cursor(c, "get_table_columns", f,
            IF x.done THEN x ELSE [x EXCEPT !.cols = columns])

get_table_columns(c, table, include_id, f) ==
    LET x == Execute(cursor(c), "get_table_columns", "execute", f, "SELECT columns")
        columns == IF table \in DOMAIN x.rows THEN Catalog[table] ELSE <<>>
    IN  db_cursor(c, "get_table_columns", f,
            IF x.done THEN x
            ELSE [x EXCEPT !.cols =
                    IF ~include_id /\ "id" \in Range(columns)
                    THEN RemoveFirst(columns, "id") ELSE columns])

(* clean_table *)

\* variant: the sequence is reset but the rows are not deleted
clean_table_no_delete(c, table, f) ==
    LET d == cursor(c)
        d1 == IF table \notin DOMAIN d.rows THEN Raise(d, "ProgrammingError") ELSE d
        a == Execute(d1, "clean_table", "execute2", f, "ALTER SEQUENCE")
    IN  db_cursor(c, "clean_table", f,
            IF a.done THEN a ELSE [a EXCEPT !.seq[table] = 1])

clean_table(c, table, f) ==
    LET d == Execute(cursor(c), "clean_table", "execute", f, "DELETE")
        d1 == IF d.done THEN d
              ELSE IF table \notin DOMAIN d.rows
              THEN Raise(d, "ProgrammingError")        \* relation does not exist
              ELSE [d EXCEPT !.rows[table] = <<>>]
        a == Execute(d1, "clean_table", "execute2", f, "ALTER SEQUENCE")
    IN  db_cursor(c, "clean_table", f,
            IF a.done THEN a ELSE [a EXCEPT !.seq[table] = 1])

(* get_file_headers: leaves the pair in headers, file_type *)

\* the first line of a file that is text, as csv.reader splits it: the
\* header of a CSV file, the opening line of a JSON file written by json.dump
FirstLine(content) ==
    IF content.fmt = "csv" THEN content.header
    ELSE IF content.fmt = "object" THEN <<"{}">>
    ELSE IF content.body = <<>> THEN <<"[]">>
    ELSE <<"[">>

get_file_headers(c, path, f) ==
    LET c1 == Log(c, "open")
        content == c.fs[path]
    IN  IF Hits(f, "get_file_headers", "open")
        THEN [c1 EXCEPT !.headers = <<>>, !.file_type = "Error reading file", !.hit = TRUE]
        ELSE IF lower(path.ext) = ".csv"
        THEN IF content.fmt = "absent"           \* open raises FileNotFoundError
             THEN [c1 EXCEPT !.headers = <<>>, !.file_type = "Error reading file"]
             ELSE IF content.fmt = "garbage"     \* next(reader) raises UnicodeDecodeError
             THEN [c1 EXCEPT !.headers = <<>>, !.file_type = "Error reading file"]
             ELSE IF content.fmt = "empty"       \* next(reader) raises StopIteration
             THEN [c1 EXCEPT !.headers = <<>>, !.file_type = "Error reading file"]
             ELSE [c1 EXCEPT !.headers = FirstLine(content), !.file_type = "csv"]
        ELSE IF content.fmt = "json"
             THEN IF Len(content.body) > 0
                  THEN [c1 EXCEPT !.headers = content.body[1].keys, !.file_type = "json"]
                  ELSE [c1 EXCEPT !.headers = <<>>, !.file_type = "json"]
             ELSE IF content.fmt = "object"
             THEN [c1 EXCEPT !.headers = <<>>, !.file_type = "json"]
             ELSE [c1 EXCEPT !.headers = <<>>, !.file_type = "Error reading file"]

----------------------------------------------------------------------------
(* INSERT INTO table (keys) VALUES (vals), as the database executes it *)

InsertRow(y, table, rec) ==
    LET columns == IF table \in DOMAIN y.rows THEN Catalog[table] ELSE <<>>
        explicit == Has(rec, "id")
        bad == {i \in DOMAIN rec.keys : Coerce(rec.keys[i], rec.vals[i]).err # "none"}
        first == CHOOSE i \in bad : \A j \in bad : i <= j
        idv == IF explicit THEN Stored("id", Get(rec, "id")) ELSE SeqValue(y.seq[table])
        row == [col \in Range(columns) |->
                   IF col = "id" THEN idv
                   ELSE IF Has(rec, col) THEN Stored(col, Get(rec, col))
                   ELSE NULL]
    IN  IF table \notin DOMAIN y.rows
        THEN Raise(y, "ProgrammingError")            \* relation does not exist
        ELSE IF rec.keys = <<>> \/ Len(rec.vals) # Len(rec.keys)
        THEN Raise(y, "ProgrammingError")            \* syntax error
        ELSE IF ~(Range(rec.keys) \subseteq Range(columns))
        THEN Raise(y, "ProgrammingError")            \* column does not exist
        ELSE IF bad # {}
        THEN Raise(y, Coerce(rec.keys[first], rec.vals[first]).err)   \* invalid input
        ELSE IF explicit /\ idv = NULL
        THEN Raise(y, "IntegrityError")              \* null in primary key
        ELSE LET y1 == IF explicit THEN y ELSE [y EXCEPT !.seq[table] = @ + 1]   \* nextval
             IN  IF \E i \in DOMAIN y1.rows[table] : y1.rows[table][i].id = idv
                 THEN Raise(y1, "IntegrityError")    \* duplicate key
                 ELSE [y1 EXCEPT !.rows[table] = Append(@, row)]

\* the rows csv.DictReader / json.load hand to the insert loop
FileRecords(content, file_type) ==
    IF file_type = "csv"
    THEN [i \in DOMAIN content.body |-> Rec(content.header, content.body[i])]
    ELSE content.body

RECURSIVE InsertAll(_, _, _, _, _)
\* for row in reader / data: cursor.execute(INSERT ...)
InsertAll(c0, table, recs, i, f) ==
    Only({IF c.done \/ i > Len(recs) THEN c
          ELSE InsertAll(IF Hits(f, "insert", "execute") /\ f.k = i
                         THEN RaiseFault(Log(c, "INSERT"), f)
                         ELSE Only({InsertRow(c1, table, recs[i]) : c1 \in {Log(c, "INSERT")}}),
                         table, recs, i + 1, f)
            : c \in {c0}})

(* import_file_to_db *)

\* variant: the empty-header test is missing
HeadersUnreadable_never(headers) == FALSE

\* if not headers
HeadersUnreadable(headers) == headers = <<>>

\* set(headers) != set(table_columns)
SchemaDiffers(headers, table_columns) == Range(headers) # Range(table_columns)

\* variant: except OperationalError as e
ImportCatches_operational(e) == e = "OperationalError"

\* except Exception as e
ImportCatches(e) == e # "none"

import_file_to_db(files, r, s, cn, path, table, f) ==
    LET s0 == {Log(Call(files, r, s, cn), "os.path.exists")}
        s1 == {IF ~check_file_exists(files, path)
               THEN Return(c, Msg("Error: File does not exist")) ELSE c : c \in s0}
        s2 == {IF c.done THEN c
               ELSE IF ~validate_file_type(path)
               THEN Return(c, Msg("Error: Only CSV and JSON files are supported"))
               ELSE c : c \in s1}
        t3 == {IF c.done THEN c ELSE check_table_exists(c, table, f) : c \in s2}
        s3 == {IF ~c.done /\ ~c.flag
               THEN Return(c, Msg("Error: Table does not exist")) ELSE c : c \in t3}
        h4 == {IF c.done THEN c ELSE get_file_headers(c, path, f) : c \in s3}
        s4 == {IF ~c.done /\ HeadersUnreadable(c.headers)
               THEN Return(c, Msg("Error: Could not read file headers")) ELSE c : c \in h4}
        s5 == {IF c.done THEN c
               ELSE get_table_columns(c, table, "id" \in Range(c.headers), f) : c \in s4}
        s6 == {IF ~c.done /\ SchemaDiffers(c.headers, c.cols)
               THEN Return(c, [msg |-> "Error: File format does not match table structure",
                               expected |-> c.cols, found |-> c.headers])
               ELSE c : c \in s5}
        s7 == {IF c.done THEN c ELSE clean_table(c, table, f) : c \in s6}
        s8 == {IF c.done THEN c
               ELSE db_cursor(c, "insert", f,
                       IF Hits(f, "insert", "open")
                       THEN RaiseFault(Log(cursor(c), "open"), f)
                       ELSE InsertAll(Log(cursor(c), "open"), table,
                                FileRecords(c.fs[path], c.file_type), 1, f)) : c \in s7}
        s9 == {IF c.done THEN c ELSE Return(c, Msg("Successfully imported")) : c \in s8}
    IN  Only({IF c.exc # "none" /\ ImportCatches(c.exc)
              THEN [c EXCEPT !.exc = "none", !.ret = Msg("Error during import")]
              ELSE c : c \in s9})

----------------------------------------------------------------------------
(* export_db_to_file *)

\* csv.writer's rendering of a cell: None becomes the empty field, any other
\* value its str()
CsvField(val) == IF val = NULL THEN S("") ELSE S(str(val))

\* the value json.dump writes for a cell, and json.load reads back: a date,
\* time or datetime by its isoformat, a Decimal as a float
JsonValue(val) ==
    IF val.t \in {"datetime", "date", "time"} THEN S(isoformat(val))
    ELSE IF val.t = "decimal" THEN float(val)
    ELSE val

\* except Exception as e
ExportCatches(e) == e # "none"

\* variant: response.lower() == 'n'
Declines_only_n(response) == lower(response) = "n"

\* response.lower() != 'y'
Declines(response) == lower(response) # "y"

\* variant: cursor.fetchone() in place of fetchall()
fetchall_first(table_rows, table_columns) ==
    [i \in DOMAIN table_rows \cap {1} |->
        [j \in DOMAIN table_columns |-> table_rows[i][table_columns[j]]]]

\* SELECT <table_columns> FROM <table>; rows = cursor.fetchall()
fetchall(table_rows, table_columns) ==
    [i \in DOMAIN table_rows |->
        [j \in DOMAIN table_columns |-> table_rows[i][table_columns[j]]]]

\* csv.writer(file).writerow(table_columns); writerows(rows)
WriteCsv(table_columns, sel) ==
    CsvFile(table_columns,
        [i \in DOMAIN sel |-> [j \in DOMAIN table_columns |-> CsvField(sel[i][j])]])

\* json.dump of one row_dict per row
WriteJson(table_columns, sel) ==
    JsonList([i \in DOMAIN sel |->
        Rec(table_columns, [j \in DOMAIN table_columns |-> JsonValue(sel[i][j])])])

export_db_to_file(files, r, s, cn, table, path, response, f) ==
    LET s0 == {Call(files, r, s, cn)}
        s1 == {IF ~validate_file_type(path)
               THEN Return(c, Msg("Error: Only CSV and JSON files are supported"))
               ELSE c : c \in s0}
        t2 == {IF c.done THEN c ELSE check_table_exists(c, table, f) : c \in s1}
        s2 == {IF ~c.done /\ ~c.flag
               THEN Return(c, Msg("Error: Table does not exist")) ELSE c : c \in t2}
        s3 == {IF c.done THEN c
               ELSE IF check_file_exists(c.fs, path)
               THEN IF Declines(response)
                    THEN Return(Log(Log(c, "os.path.exists"), "input"),
                                Msg("Export cancelled"))
                    ELSE Log(Log(c, "os.path.exists"), "input")
               ELSE Log(c, "os.path.exists") : c \in s2}
        s4 == {IF c.done THEN c ELSE get_table_columns(c, table, TRUE, f) : c \in s3}
        x5 == {IF c.done THEN c
               ELSE Execute(cursor(c), "select", "execute", f, "SELECT") : c \in s4}
        s5 == {IF \E c \in s4 : c.done THEN x
               ELSE db_cursor(Only(s4), "select", f,
                       IF x.done THEN x
                       ELSE IF table \notin DOMAIN x.rows
                       THEN Raise(x, "ProgrammingError")
                       ELSE [x EXCEPT !.sel = fetchall(x.rows[table], x.cols)]) : x \in x5}
        s6 == {IF c.done THEN c
               ELSE IF Hits(f, "write", "open") THEN RaiseFault(Log(c, "open w"), f)
               ELSE IF lower(path.ext) = ".csv"
               THEN [Log(c, "open w") EXCEPT !.fs[path] = WriteCsv(c.cols, c.sel)]
               ELSE [Log(c, "open w") EXCEPT !.fs[path] = WriteJson(c.cols, c.sel)]
                 : c \in s5}
        s7 == {IF c.done THEN c ELSE Return(c, Msg("Successfully exported")) : c \in s6}
    IN  Only({IF c.exc # "none" /\ ExportCatches(c.exc)
              THEN [c EXCEPT !.exc = "none", !.ret = Msg("Error during export")]
              ELSE c : c \in s7})

(* check_database_connection *)

\* except OperationalError as e
CheckCatches(e) == e = "OperationalError"

check_database_connection(files, r, s, cn, f) ==
    LET s0 == {Call(files, r, s, cn)}
        s1 == {db_cursor(c, "check", f,
                   Execute(cursor(c), "check", "execute", f, "SELECT 1")) : c \in s0}
        s2 == {IF c.done THEN c
               ELSE Return([c EXCEPT !.flag = TRUE], Msg("Database connection successful"))
                 : c \in s1}
    IN  Only({IF c.exc # "none" /\ CheckCatches(c.exc)
              THEN [c EXCEPT !.exc = "none", !.flag = FALSE,
                             !.ret = Msg("Database connection failed")]
              ELSE c : c \in s2})

----------------------------------------------------------------------------
(* Inputs *)

RealtorData == <<"name", "is_mvp", "email", "hire_date">>

ListingData == <<"title", "is_published", "price", "list_date", "realtor">>

\* the values a file gives for a key: a CSV field is a str, a JSON value may
\* be a bool
ValuesOf(k, fmt) ==
    IF k = "id" THEN {S("1"), S("02")}
    ELSE IF k \in {"is_mvp", "is_published"}
    THEN (IF fmt = "csv" THEN {S("t")} ELSE {B("True")})
    ELSE IF k = "hire_date" THEN {S("2020-01-01")}
    ELSE IF k = "list_date" THEN {S("2020-01-01T10:30:00")}
    ELSE IF k = "price" THEN {S("2.50")}
    ELSE IF k = "realtor" THEN {S("1")}
    ELSE IF k = "email" THEN {S("e")}
    ELSE {S("a")}

\* the key lists of the records of a JSON file written for a table
KeyLists ==
    [realtors |-> {<<>>, <<"name">>, RealtorColumns, RealtorData, <<"name", "phone">>},
     listings |-> {ListingColumns, ListingData}]

RECURSIVE ValLists(_, _)
\* the value lists a file of the format may give for a key list
ValLists(ks, fmt) ==
    IF ks = <<>> THEN {<<>>}
    ELSE {<<h>> \o tl : h \in ValuesOf(Head(ks), fmt), tl \in ValLists(Tail(ks), fmt)}

JsonRecs(keylists) == UNION {{Rec(ks, v) : v \in ValLists(ks, "json")} : ks \in keylists}

SeqsUpTo(T, n) == UNION {[1..m -> T] : m \in 0..n}

\* the JSON files written for a table
JsonFiles(t) == {JsonList(recs) : recs \in SeqsUpTo(JsonRecs(KeyLists[t]), MaxRows)}
                   \cup {JsonObject, Garbage, Empty}

CsvHeaders == {RealtorColumns, RealtorData, <<"name", "is_mvp", "email", "hire_date", "id">>,
               <<"id", "name">>, <<"name", "phone">>, ListingColumns, ListingData}

CsvFiles == UNION {{CsvFile(h, lines) : lines \in SeqsUpTo(ValLists(h, "csv"), MaxRows)}
                      : h \in CsvHeaders}
                \cup {Empty, Garbage}

\* the files a path of the extension may hold in a database holding table t
FilesFor(e, t) ==
    IF e = ".json" THEN JsonFiles(t)
    ELSE IF lower(e) = ".csv" THEN CsvFiles
    ELSE {Garbage}

Responses == {"y", "Y", "n", ""}

ExcClasses == {"OperationalError", "InterfaceError"}

\* one step of one db_cursor scope (or one open) raising
Fault(site, step, k) == {[site |-> site, step |-> step, exc |-> e, k |-> k] : e \in ExcClasses}

\* the commands of the faulty environment: load r.json, dump to r.CSV
FaultSource == [stem |-> "r", ext |-> ".json"]

FaultTarget == [stem |-> "r", ext |-> ".CSV"]

ScopeSteps == {"acquire", "execute", "cursor.close", "connection.close"}

ScopeFaults(site) == UNION {Fault(site, st, 0) : st \in ScopeSteps}

CheckFaults == ScopeFaults("check")

ImportFaults ==
    ScopeFaults("check_table_exists") \cup ScopeFaults("get_table_columns")
        \cup ScopeFaults("clean_table") \cup Fault("clean_table", "execute2", 0)
        \cup Fault("get_file_headers", "open", 0)
        \cup Fault("insert", "acquire", 0) \cup Fault("insert", "open", 0)
        \cup Fault("insert", "cursor.close", 0) \cup Fault("insert", "connection.close", 0)
        \cup UNION {Fault("insert", "execute", k) : k \in 1..MaxRows}

ExportFaults ==
    ScopeFaults("check_table_exists") \cup ScopeFaults("get_table_columns")
        \cup ScopeFaults("select") \cup Fault("write", "open", 0)

OldRow == [id |-> I("1"), name |-> S("old"), is_mvp |-> B("False"), email |-> NULL,
           hire_date |-> D("2019-05-05")]

OldListing == [id |-> I("1"), title |-> S("old"), is_published |-> B("False"),
               price |-> Dec("3", <<>>), list_date |-> DT("2019-05-05", "08:00:00"),
               realtor |-> I("1")]

OldRows == [realtors |-> <<OldRow>>, listings |-> <<OldListing>>]

\* a database holding the table t alone, with its one old row
InitialRows(t) == [x \in {t} |-> OldRows[x]]

InitialSeq(t) == [x \in {t} |-> 2]

----------------------------------------------------------------------------
(* The program *)

NoCall ==
    [op |-> "none", path |-> [stem |-> "", ext |-> ""], table |-> "", response |-> "",
     hit |-> FALSE, ret |-> NoResult, log |-> <<>>, exc |-> "none",
     preFile |-> Absent, preRows |-> <<>>, preSeq |-> <<>>, preConn |-> FALSE]

NotImported == [valid |-> FALSE, fresh |-> FALSE, recs |-> <<>>]

Init ==
    /\ \E t \in DOMAIN Catalog, p \in Paths : \E content \in FilesFor(p.ext, t) :
          /\ fs = [q \in Paths |-> IF q = p THEN content ELSE Absent]
          /\ rows = InitialRows(t)
          /\ seq = InitialSeq(t)
    /\ conn = FALSE
    /\ mainpc = "start"
    /\ last = NoCall
    /\ imported = NotImported

\* main(), up to the menu loop
Startup(f) ==
    /\ mainpc = "start"
    /\ \E c \in {check_database_connection(fs, rows, seq, conn, f)} :
           /\ mainpc' = IF c.exc # "none" THEN "crashed"
                        ELSE IF c.flag THEN "menu" ELSE "stopped"
           /\ conn' = c.conn
           /\ last' = [NoCall EXCEPT !.op = "check", !.hit = c.hit, !.ret = c.ret,
                                     !.log = c.log, !.exc = c.exc, !.preConn = conn]
    /\ UNCHANGED <<fs, rows, seq, imported>>

\* choice '1'
ChooseImport(path, table, f) ==
    /\ mainpc = "menu"
    /\ \E c \in {import_file_to_db(fs, rows, seq, conn, path, table, f)} :
           /\ f = NoFault \/ c.hit
           /\ fs' = c.fs
           /\ rows' = c.rows
           /\ seq' = c.seq
           /\ conn' = c.conn
           /\ mainpc' = IF c.exc # "none" THEN "crashed" ELSE "menu"
           /\ last' = [op |-> "import", path |-> path, table |-> table, response |-> "",
                       hit |-> c.hit, ret |-> c.ret, log |-> c.log, exc |-> c.exc,
                       preFile |-> fs[path], preRows |-> rows, preSeq |-> seq,
                       preConn |-> conn]
           /\ imported' = IF c.exc = "none" /\ c.ret.msg = "Successfully imported"
                          THEN [valid |-> TRUE, fresh |-> TRUE,
                                recs |-> FileRecords(fs[path], c.file_type)]
                          ELSE NotImported

\* choice '2'
ChooseExport(table, path, response, f) ==
    /\ mainpc = "menu"
    /\ response = "" \/ (table \in DOMAIN rows /\ check_file_exists(fs, path))
    /\ \E c \in {export_db_to_file(fs, rows, seq, conn, table, path, response, f)} :
           /\ f = NoFault \/ c.hit
           /\ fs' = c.fs
           /\ rows' = c.rows
           /\ seq' = c.seq
           /\ conn' = c.conn
           /\ mainpc' = IF c.exc # "none" THEN "crashed" ELSE "menu"
           /\ last' = [op |-> "export", path |-> path, table |-> table,
                       response |-> response,
                       hit |-> c.hit, ret |-> c.ret, log |-> c.log, exc |-> c.exc,
                       preFile |-> fs[path], preRows |-> rows, preSeq |-> seq,
                       preConn |-> conn]
           /\ imported' = IF imported.fresh /\ last.table = table
                          THEN [imported EXCEPT !.fresh = FALSE]
                          ELSE NotImported

\* choice '3'
ChooseExit ==
    /\ mainpc = "menu"
    /\ mainpc' = "exited"
    /\ last' = [NoCall EXCEPT !.op = "exit"]
    /\ imported' = NotImported
    /\ UNCHANGED <<fs, rows, seq, conn>>

\* any other choice
ChooseInvalid ==
    /\ mainpc = "menu"
    /\ last' = [NoCall EXCEPT !.op = "invalid"]
    /\ imported' = NotImported
    /\ UNCHANGED <<fs, rows, seq, conn, mainpc>>

Next ==
    \/ Startup(NoFault)
    \/ \E p \in Paths, t \in TableNames : ChooseImport(p, t, NoFault)
    \/ \E t \in TableNames, p \in Paths, a \in Responses : ChooseExport(t, p, a, NoFault)
    \/ ChooseExit
    \/ ChooseInvalid

Spec == Init /\ [][Next]_vars

----------------------------------------------------------------------------
(* The same program in an environment where any one step of a command may  *)
(* raise: one importable file on disk, one fault per command.              *)

FaultInit ==
    /\ fs = [q \in Paths |->
                IF q.ext = ".json"
                THEN JsonList([i \in 1..MaxRows |->
                        Rec(RealtorColumns, <<SeqValue(i), S("a"), B("True"), S("e"), S("2020-01-01")>>)])
                ELSE Absent]
    /\ rows = InitialRows("realtors")
    /\ seq = InitialSeq("realtors")
    /\ conn = FALSE
    /\ mainpc = "start"
    /\ last = NoCall
    /\ imported = NotImported

FaultNext ==
    \/ \E f \in CheckFaults \cup {NoFault} : Startup(f)
    \/ \E f \in ImportFaults \cup {NoFault} :
          ChooseImport(FaultSource, "realtors", f)
    \/ \E a \in Responses, f \in ExportFaults \cup {NoFault} :
          ChooseExport("realtors", FaultTarget, a, f)
    \/ ChooseExit
    \/ ChooseInvalid

FaultSpec == FaultInit /\ [][FaultNext]_vars

----------------------------------------------------------------------------
(* What the last command did, read off its record *)

Did(ev) == \E i \in DOMAIN last.log : last.log[i] = ev

Count(ev) == Cardinality({i \in DOMAIN last.log : last.log[i] = ev})

Mutated == Did("DELETE") \/ Did("ALTER SEQUENCE") \/ Did("INSERT")

TableUntouched == rows = last.preRows /\ seq = last.preSeq /\ ~Mutated

FileExisted == last.preFile.fmt # "absent"

SupportedExt == last.path.ext \in {".csv", ".CSV", ".json"}

\* the table named in the last command is in the database
TableExisted == last.table \in DOMAIN rows

\* the header names of a readable file: the CSV header line, the keys of the
\* first record of a JSON array
HeaderNames(file) ==
    IF file.fmt = "csv" THEN Range(file.header)
    ELSE IF file.body = <<>> THEN {}
    ELSE Range(file.body[1].keys)

\* the column sets of the tables
TableColumns ==
    [realtors |-> {"id", "name", "is_mvp", "email", "hire_date"},
     listings |-> {"id", "title", "is_published", "price", "list_date", "realtor"}]

\* the column set of the table of the last command, id counted only when the
\* header has id
ExpectedColumns(hdr) ==
    IF "id" \in hdr THEN TableColumns[last.table] ELSE TableColumns[last.table] \ {"id"}

ReachesColumnCheck ==
    /\ last.op = "import"
    /\ FileExisted /\ SupportedExt /\ TableExisted
    /\ last.preFile.fmt \in {"csv", "json"}

SchemaMismatchReported ==
    /\ last.ret.msg = "Error: File format does not match table structure"
    /\ Range(last.ret.expected) = ExpectedColumns(HeaderNames(last.preFile))
    /\ Range(last.ret.found) = HeaderNames(last.preFile)

\* C1 as stated: whenever the header set of the file differs from the column
\* set of the table, the import returns the schema-mismatch error and leaves
\* the table as it was.
C1_AsStated ==
    (ReachesColumnCheck
        /\ HeaderNames(last.preFile) # ExpectedColumns(HeaderNames(last.preFile)))
    => (SchemaMismatchReported /\ TableUntouched)

\* C1 amended: whenever the file has a non-empty header whose set differs
\* from the column set of the table (id counted only when the header has
\* id), the import returns the schema-mismatch error naming the expected and
\* the found columns, and neither clears the table nor inserts.
C1_SchemaMismatch ==
    (ReachesColumnCheck
        /\ HeaderNames(last.preFile) # {}
        /\ HeaderNames(last.preFile) # ExpectedColumns(HeaderNames(last.preFile)))
    => (SchemaMismatchReported /\ TableUntouched)

C1_Witness ==
    /\ ReachesColumnCheck
    /\ SchemaMismatchReported
    /\ last.ret.expected = <<"name", "is_mvp", "email", "hire_date">>
    /\ "phone" \in HeaderNames(last.preFile)
    /\ rows = InitialRows("realtors")

\* C2 as stated: an import into a table that does not exist returns the
\* table-not-found error whatever the state of the file, and neither clears
\* nor inserts.
C2_AsStated ==
    (last.op = "import" /\ ~TableExisted)
    => (last.ret.msg = "Error: Table does not exist" /\ TableUntouched)

\* C2 amended: an import into a table that does not exist never clears or
\* inserts; it returns the table-not-found error when the file exists and has
\* a supported extension, the file-not-found error when the file is missing,
\* and the unsupported-format error when the file exists with another
\* extension.
C2_NoSuchTable ==
    (last.op = "import" /\ ~TableExisted)
    => /\ TableUntouched
       /\ (FileExisted /\ SupportedExt) => last.ret.msg = "Error: Table does not exist"
       /\ ~FileExisted => last.ret.msg = "Error: File does not exist"
       /\ (FileExisted /\ ~SupportedExt)
            => last.ret.msg = "Error: Only CSV and JSON files are supported"

C2_Witness ==
    /\ last.op = "import" /\ ~TableExisted
    /\ last.ret.msg = "Error: Table does not exist"
    /\ last.preFile.fmt = "json"
    /\ HeaderNames(last.preFile) = {"id", "name", "is_mvp", "email", "hire_date"}
    /\ rows = InitialRows("realtors")

\* C3 as stated: in import and in export, a path with an unsupported
\* extension is rejected with the unsupported-format error before any file
\* or database access.
C3_AsStated ==
    (last.op \in {"import", "export"} /\ ~SupportedExt)
    => (last.ret.msg = "Error: Only CSV and JSON files are supported" /\ last.log = <<>>)

\* C3 amended: export rejects an unsupported extension before any file or
\* database access; import rejects it before any database access and before
\* opening the file, but after the file-existence check, and a missing file
\* is reported as file-not-found instead.
C3_UnsupportedFirst ==
    /\ (last.op = "export" /\ ~SupportedExt)
        => (last.ret.msg = "Error: Only CSV and JSON files are supported"
              /\ last.log = <<>>)
    /\ (last.op = "import" /\ ~SupportedExt)
        => /\ last.log = <<"os.path.exists">>
           /\ last.ret.msg = IF FileExisted
                             THEN "Error: Only CSV and JSON files are supported"
                             ELSE "Error: File does not exist"

C3_Witness ==
    /\ last.op = "import" /\ ~SupportedExt /\ FileExisted
    /\ last.ret.msg = "Error: Only CSV and JSON files are supported"
    /\ TableExisted

\* C4: an export to an existing file with a supported extension, from an
\* existing table, answered with anything but y or Y, leaves the file as it
\* was, selects nothing from the table and returns "Export cancelled".
C4_DeclinedExport ==
    (last.op = "export" /\ SupportedExt /\ TableExisted /\ FileExisted
        /\ last.response \notin {"y", "Y"})
    => /\ fs[last.path] = last.preFile
       /\ ~Did("SELECT")
       /\ last.ret.msg = "Export cancelled"

C4_Witness ==
    /\ last.op = "export" /\ SupportedExt /\ TableExisted
    /\ last.preFile.fmt = "json" /\ last.preFile.body # <<>>
    /\ last.response = "n"
    /\ last.ret.msg = "Export cancelled"
    /\ rows[last.table] # <<>>

\* a row as a mapping from column name to value
RowMap(rec) == [k \in Range(rec.keys) |-> Get(rec, k)]

RowsOfFile(file) ==
    {RowMap(r) : r \in Range(FileRecords(file, IF file.fmt = "csv" THEN "csv" ELSE "json"))}

ExportedAfterImport ==
    /\ last.op = "export"
    /\ imported.valid
    /\ last.ret.msg = "Successfully exported"

\* the records of the imported file all carry exactly the header's keys
Homogeneous(recs) == \A i \in DOMAIN recs : Range(recs[i].keys) = Range(recs[1].keys)

\* C5 as stated: after a successful import of F followed at once by an export
\* to F', the set of rows of F' equals the set of rows of F.
C5_AsStated ==
    ExportedAfterImport
    => RowsOfFile(fs[last.path]) = {RowMap(r) : r \in Range(imported.recs)}

\* an integer of F as F' shows it: without leading zeros, as text in a CSV
ShownInt(file, val) ==
    LET n == IF val.v = "02" THEN "2" ELSE val.v
    IN  IF file.fmt = "csv" THEN S(n) ELSE I(n)

\* a flag of F as F' shows it: True or False, as text in a CSV
ShownFlag(file, val) ==
    LET b == IF val.v \in {"t", "True"} THEN "True" ELSE "False"
    IN  IF file.fmt = "csv" THEN S(b) ELSE B(b)

\* a date and time of F as F' shows it: the ISO text with a T in JSON, the
\* same with a space in place of the T in a CSV
ShownMoment(file, val) ==
    LET iso == IF val.v \in {"2020-01-01T10:30:00", "2020-01-01 10:30:00"}
               THEN <<"2020-01-01T10:30:00", "2020-01-01 10:30:00">>
               ELSE <<"2019-05-05T08:00:00", "2019-05-05 08:00:00">>
    IN  IF file.fmt = "csv" THEN S(iso[2]) ELSE S(iso[1])

\* a decimal of F as F' shows it: its digits as they are in a CSV, the
\* floating-point number in JSON (2.50 becomes 2.5, 3 becomes 3.0)
ShownDecimal(file, val) ==
    IF file.fmt = "csv"
    THEN (IF val.t = "float" THEN S(val.v \o "." \o Join(val.w)) ELSE S(val.v))
    ELSE IF val.t = "float" THEN val
    ELSE IF val.v \in {"2.50", "2.5"} THEN Float("2", <<"5">>)
    ELSE Float("3", <<"0">>)

\* a value of F as F' shows it: in the form its column stores and the format
\* of F' writes, null as the empty field when F' is a CSV file
Shown(file, k, val) ==
    IF val = NULL THEN (IF file.fmt = "csv" THEN S("") ELSE NULL)
    ELSE IF k \in {"id", "realtor"} THEN ShownInt(file, val)
    ELSE IF k \in {"is_mvp", "is_published"} THEN ShownFlag(file, val)
    ELSE IF k = "list_date" THEN ShownMoment(file, val)
    ELSE IF k = "price" THEN ShownDecimal(file, val)
    ELSE S(val.v)

\* C5 amended: after a successful import of F, all of whose records carry
\* exactly the header's keys, followed at once by an export to F', F' has one
\* row for each row of F, every row of F' carries exactly the columns of the
\* table, and the rows of F' restricted to the header columns of F are, as a
\* set, the rows of F, each value in the form its column stores and F'
\* writes (an integer or a flag normalised, a decimal as a float in JSON, a
\* date by its isoformat, a date and time by its isoformat in JSON and with
\* a space for the T in CSV, null as the empty CSV field).  When F has no id
\* column, the ids of F' are 1 .. n, as the restarted sequence assigns them.
C5_RoundTrip ==
    (ExportedAfterImport /\ Homogeneous(imported.recs))
    => LET H == IF imported.recs = <<>> THEN {} ELSE Range(imported.recs[1].keys)
           out == fs[last.path]
           n == Len(imported.recs)
       IN  /\ Len(out.body) = n
           /\ \A m \in RowsOfFile(out) : DOMAIN m = TableColumns[last.table]
           /\ {[k \in H |-> m[k]] : m \in RowsOfFile(out)}
                = {[k \in H |-> Shown(out, k, Get(r, k))] : r \in Range(imported.recs)}
           /\ (n > 0 /\ "id" \notin H)
                => {m.id : m \in RowsOfFile(out)}
                     = {ShownInt(out, SeqValue(i)) : i \in 1..n}

C5_Witness ==
    /\ ExportedAfterImport
    /\ last.table = "listings"
    /\ Len(imported.recs) = 2 /\ Homogeneous(imported.recs)
    /\ "id" \notin Range(imported.recs[1].keys)
    /\ Get(imported.recs[1], "price") = S("2.50")
    /\ fs[last.path].fmt = "json"
    /\ Cardinality(RowsOfFile(fs[last.path])) = 2
    /\ \A m \in RowsOfFile(fs[last.path]) :
          m.price = Float("2", <<"5">>) /\ m.list_date = S("2020-01-01T10:30:00")

\* C6: importing an existing .json file holding an empty array into an
\* existing table returns "Error: Could not read file headers" and neither
\* clears the table nor inserts.
C6_EmptyArray ==
    (last.op = "import" /\ last.path.ext = ".json" /\ TableExisted
        /\ last.preFile = JsonList(<<>>))
    => (last.ret.msg = "Error: Could not read file headers" /\ TableUntouched)

C6_Witness ==
    /\ last.op = "import" /\ last.path.ext = ".json" /\ TableExisted
    /\ last.preFile = JsonList(<<>>)
    /\ last.ret.msg = "Error: Could not read file headers"
    /\ rows = InitialRows("realtors")

\* C7: check_database_connection never raises; a failure of any step comes
\* back as (False, message), and (True, message) otherwise.
C7_CheckNeverRaises ==
    last.op = "check"
    => /\ last.exc = "none"
       /\ last.ret.msg = IF last.hit THEN "Database connection failed"
                         ELSE "Database connection successful"

\* C8: once a db_cursor scope has been left, on whatever path, the
\* connection is closed.
C8_ConnectionReleased ==
    last.op \in {"check", "import", "export"} => conn = FALSE

\* C9: every failure inside import_file_to_db or export_db_to_file comes back
\* to main as a message; main stays in the menu loop, which ends only when
\* the user chooses exit.
C9_FailuresAreMessages ==
    /\ last.op \in {"import", "export"}
        => (last.exc = "none" /\ last.ret.msg # "" /\ mainpc = "menu")
    /\ (last.op \in {"import", "export"} /\ last.hit)
        => last.ret.msg \in {"Error during import", "Error during export",
                             "Error: Could not read file headers"}
    /\ mainpc \notin {"start", "menu"}
        => (last.op = "exit" /\ mainpc = "exited") \/ last.op = "check"

C9_Witness ==
    /\ last.op = "import" /\ last.hit
    /\ last.log[Len(last.log)] = "DELETE"
    /\ last.ret.msg = "Error during import"
    /\ mainpc = "menu"

\* the row the table stores for the i-th record of the file when the records
\* before it were inserted
Image(recs, i) ==
    [col \in TableColumns[last.table] |->
        IF Has(recs[i], col) THEN Stored(col, Get(recs[i], col))
        ELSE IF col = "id"
        THEN SeqValue(1 + Cardinality({j \in 1..(i - 1) : ~Has(recs[j], "id")}))
        ELSE NULL]

\* C10: when the INSERT of the k-th file row fails after validation, the
\* import returns "Error during import" and rolls nothing back: the table
\* holds exactly the first k-1 file rows, none of the rows it held before,
\* and no row after the k-th.
C10_PartialImport ==
    (last.op = "import" /\ last.ret.msg = "Error during import" /\ Did("INSERT"))
    => LET k == Count("INSERT")
           recs == FileRecords(last.preFile, IF last.preFile.fmt = "csv" THEN "csv" ELSE "json")
       IN  /\ k <= Len(recs)
           /\ Len(rows[last.table]) = k - 1
           /\ \A i \in 1..(k - 1) : rows[last.table][i] = Image(recs, i)
           /\ \A i \in DOMAIN rows[last.table] :
                 rows[last.table][i] \notin Range(OldRows[last.table])

C10_Witness ==
    /\ last.op = "import" /\ last.ret.msg = "Error during import"
    /\ Count("INSERT") = 2
    /\ last.preRows = InitialRows("realtors")
    /\ Len(rows[last.table]) = 1
    /\ last.preFile.fmt = "json" /\ Len(last.preFile.body) = 3
    /\ Has(last.preFile.body[2], "phone")

====
